---- MODULE Spec2Model ----
\* The OneAgent reconciler (pkg/controller/oneagent/oneagent_controller.go):
\* one Reconcile tick at a time for one OneAgent instance, against a cluster
\* store (the instance, its daemonset, its pods, the token secret), the
\* vendor API and the daemonset controller that recreates deleted pods.
EXTENDS Integers, Sequences, FiniteSets, TLC

VARIABLES
    crExists,       \* the OneAgent object is in the store
    crSpec,         \* its stored .spec
    crStatus,       \* its stored .status
    ds,             \* the stored daemonset: NoDS or its template
    pods,           \* the stored pods: name -> [node, phase, ready, version]
    nextPod,        \* the next pod name the daemonset controller hands out
    secret,         \* the token secret: "ok", "invalid" or "missing"
    vendor,         \* the vendor API: [ok, version] answer to GetVersionForLatest
    meshDone,       \* the mesh objects of the istio hook exist
    now,            \* metav1.Now()
    pc,             \* position of the running tick
    instance,       \* the tick's in-memory OneAgent
    cause,          \* which call site of updateCR is running
    newStatus,      \* updateCR's saved copy of instance.Status
    updErr,         \* updateCR's returned error
    desired,        \* reconcileVersion's resolved desired version
    updateCR,       \* reconcileVersion's updateCR flag
    podsToDelete,   \* the list handed to deletePods
    idx,            \* deletePods' range index
    splay,          \* waitPodReadyState's loop counter (uint16)
    status,         \* waitPodReadyState's status error
    result,         \* what the last tick returned
    ticks,          \* ticks started
    muts,           \* store mutations the tick issued, in order
    calls,          \* other collaborator calls the tick issued
    rollout,        \* per deleted pod: what its wait did
    status0,        \* the stored status when the tick began
    fullAtStart,    \* every node had a running pod when deletePods began
    envActed,       \* somebody else changed the cluster since the tick began
    seq2,           \* this tick directly follows one that returned no error, nothing changed between
    seqClean        \* ... and that tick issued no mutation and asked for no early re-tick

vars == <<crExists, crSpec, crStatus, ds, pods, nextPod, secret, vendor, meshDone,
          now, pc, instance, cause, newStatus, updErr, desired, updateCR,
          podsToDelete, idx, splay, status, result, ticks, muts, calls, rollout,
          status0, fullAtStart, envActed, seq2, seqClean>>

storeVars == <<crExists, crSpec, crStatus, ds, pods, nextPod, secret, vendor, meshDone>>
waitVars  == <<podsToDelete, idx, splay, status>>

----------------------------------------------------------------------------
\* Bounds of the model.
MaxTicks == 2
MaxNewPods == 1

\* Program constants.
splayTimeSeconds == 10
UInt16 == 65536

Nodes == {"A", "B"}
FirstNewPod == Cardinality(Nodes) + 1
Versions == {"v1", "v2"}
NewPodVersion == "v2"
Timeouts == {0, 10, 15}
WrapTimeouts == {15, 65531}
InstanceName == "oneagent"
TokenEnv == "ONEAGENT_INSTALLER_TOKEN"
Images == {"img1", "img2"}

NoDS == [exists |-> FALSE]
EmptyStatus == [version |-> "", updatedTimestamp |-> 0, items |-> <<>>]
NoSpec == [valid |-> FALSE, tokens |-> "", env |-> <<>>, image |-> "",
           disableAgentUpdate |-> FALSE, enableIstio |-> FALSE, waitReadySeconds |-> 0]
NoInstance == [spec |-> NoSpec, status |-> EmptyStatus]
OKResults == {"Done", "Requeue", "After5m", "After30m"}
SteadyResults == {"Done", "After30m"}

Range(s) == {s[i] : i \in DOMAIN s}
Min(a, b) == IF a < b THEN a ELSE b

\* The pods of a list call, in name order.
RECURSIVE SortedSeq(_)
SortedSeq(S) ==
    IF S = {} THEN <<>>
    ELSE LET m == CHOOSE x \in S : \A y \in S : x <= y
         IN  <<m>> \o SortedSeq(S \ {m})

PodList == SortedSeq(DOMAIN pods)

RunningOn(n) == {p \in DOMAIN pods : pods[p].node = n /\ pods[p].phase = "Running"}
NodesWithoutRunning == {n \in Nodes : RunningOn(n) = {}}

----------------------------------------------------------------------------
\* Pure helpers of the reconciler.

\* Reconcile: the default of .spec.tokens.
\* (a reconciler that forgets the default)
DefaultTokens_mut(tokens, name) == tokens
DefaultTokens(tokens, name) == IF tokens = "" THEN name ELSE tokens

\* reconcileRollout: the first env entry is not the installer token.
NeedsInstallerToken(env) == env[1] # TokenEnv

\* reconcileRollout: the env list with the installer token put in front.
InsertInstallerToken(env) == <<TokenEnv>> \o env

\* The daemonset built from the instance.
newDaemonSetForCR(spec) == [exists |-> TRUE, image |-> spec.image, env |-> spec.env]

\* The materially relevant part of the deployed template differs from the spec.
hasSpecChanged(dsActual, spec) == dsActual.image # spec.image \/ dsActual.env # spec.env

\* reconcileRollout: what a Get of the daemonset answers, and the create branch.
DsGetResult(getOk) == IF ~getOk THEN "error" ELSE IF ds.exists THEN "ok" ELSE "notfound"
\* (a reconciler that takes every failed Get for a not-found)
ShouldCreate_mut(res) == res # "ok"
ShouldCreate(res) == res = "notfound"
\* reconcileRollout: the update branch, for a daemonset that was found.
\* (a reconciler that writes the daemonset it found in every tick)
ShouldUpdate_mut(res, changed) == res = "ok"
ShouldUpdate(res, changed) == res = "ok" /\ changed

\* reconcileRollout: the spec the daemonset is built from.
DesiredSpec(spec) ==
    IF NeedsInstallerToken(spec.env) THEN [spec EXCEPT !.env = InsertInstallerToken(@)] ELSE spec

\* reconcileVersion: the status version after the vendor answered d.
\* (a reconciler that never records the new version)
ResolveVersion_mut(statusVersion, d) == statusVersion
ResolveVersion(statusVersion, d) ==
    IF d # "" /\ statusVersion # d THEN d ELSE statusVersion

\* The pods to restart: those whose version is not the instance's version.
PodRef(p) == [name |-> p, node |-> pods[p].node, version |-> pods[p].version]
RECURSIVE SelectStale(_, _)
SelectStale(list, version) ==
    IF list = <<>> THEN <<>>
    ELSE (IF pods[Head(list)].version # version THEN <<PodRef(Head(list))>> ELSE <<>>)
         \o SelectStale(Tail(list), version)
getPodsToRestart(list, inst) == SelectStale(list, inst.status.version)

\* The per-pod status map.
Instances(list) ==
    [p \in Range(list) |-> [node |-> pods[p].node, version |-> pods[p].version,
                            ready |-> pods[p].ready]]

\* waitPodReadyState: the running pods on the deleted pod's node, but for itself.
foundPods(pod) ==
    {p \in DOMAIN pods : ~(pods[p].node # pod.node \/ pods[p].phase # "Running" \/ p = pod.name)}

getPodReadyState(p) == pods[p].ready

\* waitPodReadyState: one poll found exactly one running, ready pod.
PollBreaks(listOk, found) ==
    listOk /\ Cardinality(found) = 1 /\ \A p \in found : getPodReadyState(p)

\* waitPodReadyState: the status error after one poll.
PollStatus(listOk, found) ==
    IF ~listOk THEN "listError"
    ELSE IF Cardinality(found) = 0 THEN "waiting"
    ELSE IF PollBreaks(listOk, found) THEN "nil"
    ELSE IF Cardinality(found) > 1 THEN "tooMany"
    ELSE "nil"

\* waitPodReadyState: the loop counter after one iteration (uint16).
NextSplay(s) == (s + splayTimeSeconds) % UInt16

\* updateCR: the status sent by the status update.
\* (an updateCR that does not put the saved status back)
StatusToSend_mut(saved, cur) == cur
StatusToSend(saved, cur) == saved

\* Reconcile: what follows a call of updateCR.
\* (a Reconcile that asks for the long delay after a persist)
AfterUpdateCR_mut(err, c) ==
    IF err THEN "Error" ELSE IF c = "defaults" THEN "Requeue" ELSE "After30m"
AfterUpdateCR(err, c) ==
    IF err THEN "Error" ELSE IF c = "defaults" THEN "Requeue" ELSE "After5m"

\* Reconcile: what follows reconcileVersion's (updateCR, err).
\* (a reconciler that looks at the updateCR flag before the error)
AfterVersion_mut(err, upd) == IF upd THEN "persist" ELSE IF err THEN "fail" ELSE "long"
AfterVersion(err, upd) == IF err THEN "fail" ELSE IF upd THEN "persist" ELSE "long"

\* reconcileVersion: the in-memory status version after the vendor answered v.
\* (a reconcileVersion that clears the version when the query failed)
VersionAfterQuery_mut(statusVersion, v) ==
    IF ~v.ok THEN "" ELSE ResolveVersion(statusVersion, v.version)
VersionAfterQuery(statusVersion, v) ==
    IF ~v.ok THEN statusVersion ELSE ResolveVersion(statusVersion, v.version)

\* reconcileVersion: the (updateCR, err) it returns when the vendor query failed.
\* (a reconcileVersion that returns the error of the query)
AfterQueryError_mut(upd) == [upd |-> upd, err |-> TRUE]
AfterQueryError(upd) == [upd |-> FALSE, err |-> FALSE]

----------------------------------------------------------------------------
\* The initial states: a fresh instance on an empty cluster in every
\* combination of its optional fields, an instance already deployed with one
\* running pod per node, and the instances a tick gives up on at once.

DeployedSpec(wait, disable, img) ==
    [valid |-> TRUE, tokens |-> InstanceName, env |-> <<TokenEnv, "FOO">>, image |-> img,
     disableAgentUpdate |-> disable, enableIstio |-> FALSE, waitReadySeconds |-> wait]

InitialPods(vB) ==
    [p \in {1, 2} |-> [node |-> IF p = 1 THEN "A" ELSE "B", phase |-> "Running",
                       ready |-> TRUE, version |-> IF p = 1 THEN "v1" ELSE vB]]

InitialItems(vB) ==
    [p \in {1, 2} |-> [node |-> InitialPods(vB)[p].node, version |-> InitialPods(vB)[p].version,
                       ready |-> TRUE]]

VendorAnswers ==
    {[ok |-> FALSE, version |-> ""]} \cup {[ok |-> TRUE, version |-> v] : v \in Versions \cup {""}}

InitLocals ==
    /\ now = 1
    /\ pc = "idle"
    /\ instance = NoInstance
    /\ cause = ""
    /\ newStatus = EmptyStatus
    /\ updErr = FALSE
    /\ desired = ""
    /\ updateCR = FALSE
    /\ podsToDelete = <<>>
    /\ idx = 0
    /\ splay = 0
    /\ status = "nil"
    /\ result = "none"
    /\ muts = <<>>
    /\ calls = {}
    /\ rollout = <<>>
    /\ status0 = EmptyStatus
    /\ fullAtStart = FALSE
    /\ envActed = FALSE
    /\ seq2 = FALSE
    /\ seqClean = FALSE

InitFresh ==
    /\ crExists \in BOOLEAN
    /\ \E valid \in BOOLEAN, tokens \in {"", InstanceName},
          env \in {<<>>, <<"FOO">>, <<TokenEnv, "FOO">>}, disable, istio \in BOOLEAN :
          /\ \/ crExists /\ valid
             \/ tokens = "" /\ env = <<>> /\ ~disable /\ ~istio /\ (crExists \/ valid)
          /\ crSpec = [valid |-> valid, tokens |-> tokens, env |-> env, image |-> "img1",
                       disableAgentUpdate |-> disable, enableIstio |-> istio,
                       waitReadySeconds |-> 10]
    /\ crStatus = EmptyStatus
    /\ ds = NoDS
    /\ pods = <<>>
    /\ nextPod = FirstNewPod
    /\ secret \in {"ok", "missing"}
    /\ secret = "ok" \/ (crSpec.tokens # "" /\ crSpec.env = <<>> /\ ~crSpec.enableIstio)
    /\ vendor = [ok |-> TRUE, version |-> "v1"]
    /\ meshDone = FALSE

InitDeployed ==
    /\ crExists = TRUE
    /\ \E wait \in Timeouts, disable \in BOOLEAN, img \in Images :
          /\ crSpec = DeployedSpec(wait, disable, "img1")
          /\ ds = newDaemonSetForCR(DeployedSpec(wait, disable, img))
          /\ (disable \/ img # "img1") => wait = splayTimeSeconds
          /\ disable => vendor = [ok |-> TRUE, version |-> "v1"]
    /\ \E vB \in Versions :
          /\ pods = InitialPods(vB)
          /\ crStatus \in {EmptyStatus,
                           [version |-> "v1", updatedTimestamp |-> 0, items |-> InitialItems(vB)]}
    /\ nextPod = FirstNewPod
    /\ secret = "ok"
    /\ vendor \in VendorAnswers
    /\ meshDone = FALSE

Init == InitLocals /\ ticks = 0 /\ (InitFresh \/ InitDeployed)

\* A deployed instance with a second, up-to-date pod on node A.
CrowdedPods ==
    [p \in {0, 1, 2} |->
        IF p = 0 THEN [node |-> "A", phase |-> "Running", ready |-> TRUE, version |-> "v2"]
        ELSE InitialPods("v1")[p]]

CrowdedItems ==
    [p \in {0, 1, 2} |-> [node |-> CrowdedPods[p].node, version |-> CrowdedPods[p].version,
                          ready |-> TRUE]]

\* One tick of a deployed instance whose pods are stale, with readiness
\* timeouts up to the largest a uint16 holds, or with a crowded node. Under
\* the largest timeouts the daemonset controller creates no pod.
InitWait ==
    /\ InitLocals
    /\ ticks = MaxTicks - 1
    /\ crExists = TRUE
    /\ \E wait \in WrapTimeouts, istio, crowd \in BOOLEAN :
          /\ crSpec = [DeployedSpec(wait, FALSE, "img1") EXCEPT !.enableIstio = istio]
          /\ ds = newDaemonSetForCR(crSpec)
          /\ istio => wait < UInt16 \div 2
          /\ crowd => (wait < UInt16 \div 2 /\ ~istio)
          /\ pods = IF crowd THEN CrowdedPods ELSE InitialPods("v2")
          /\ crStatus = [version |-> "v1", updatedTimestamp |-> 0,
                         items |-> IF crowd THEN CrowdedItems ELSE InitialItems("v2")]
          /\ vendor \in {[ok |-> TRUE, version |-> "v2"]}
                        \cup (IF wait < UInt16 \div 2 /\ ~istio /\ ~crowd
                              THEN {[ok |-> FALSE, version |-> ""]} ELSE {})
          /\ nextPod = IF wait < UInt16 \div 2 THEN FirstNewPod ELSE FirstNewPod + MaxNewPods
    /\ secret = "ok"
    /\ meshDone = FALSE

----------------------------------------------------------------------------
\* Frames.

oldHist == UNCHANGED <<ticks, status0, fullAtStart, envActed, seq2, seqClean>>
oldUpd == UNCHANGED <<newStatus, updErr>>
oldVer == UNCHANGED <<desired, updateCR>>

\* The tick returns r; its locals are gone. Which updateCR ran, and how it
\* ended, stays on record with the result.
Returns(r) ==
    /\ result' = r
    /\ pc' = "idle"
    /\ instance' = NoInstance
    /\ newStatus' = EmptyStatus
    /\ desired' = ""
    /\ updateCR' = FALSE
    /\ podsToDelete' = <<>>
    /\ idx' = 0
    /\ splay' = 0
    /\ status' = "nil"

EndTick(r) == Returns(r) /\ UNCHANGED <<cause, updErr>>

\* The tick goes on at position p with instance i.
Goto(p, i, c) ==
    /\ pc' = p
    /\ instance' = i
    /\ cause' = c
    /\ UNCHANGED result

\* A store call of the tick failed, and not for absence.
Failure(failed) == IF failed THEN {"storeFailure"} ELSE {}

----------------------------------------------------------------------------
\* Reconcile, up to the default of .spec.tokens.
Fetch ==
    /\ pc = "idle"
    /\ ticks < MaxTicks
    /\ ticks' = ticks + 1
    /\ muts' = <<>>
    /\ rollout' = <<>>
    /\ status0' = crStatus
    /\ fullAtStart' = FALSE
    /\ envActed' = FALSE
    /\ seq2' = (ticks >= 1 /\ ~envActed /\ result \in OKResults)
    /\ seqClean' = (ticks >= 1 /\ ~envActed /\ muts = <<>> /\ result \in SteadyResults)
    /\ UNCHANGED <<storeVars, now>>
    /\ \E getOk \in BOOLEAN :
          IF ~getOk \/ ~crExists \/ ~crSpec.valid
          THEN /\ Returns(IF getOk /\ ~crExists THEN "Done" ELSE "Error")
               /\ calls' = Failure(~getOk)
               /\ cause' = ""
               /\ updErr' = FALSE
          ELSE /\ result' = "none"
               /\ calls' = {}
               /\ instance' = [spec   |-> [crSpec EXCEPT !.tokens = DefaultTokens(@, InstanceName)],
                               status |-> crStatus]
               /\ pc' = IF crSpec.tokens = "" THEN "updateCR" ELSE "buildClient"
               /\ cause' = IF crSpec.tokens = "" THEN "defaults" ELSE ""
               /\ updErr' = FALSE
               /\ UNCHANGED <<newStatus, desired, updateCR, waitVars>>

\* updateCR: the stamp, the saved status, the placeholder and the spec write.
updateCR_Update ==
    /\ pc = "updateCR"
    /\ now' = now + 1
    /\ newStatus' = [instance.status EXCEPT !.updatedTimestamp = now]
    /\ muts' = Append(muts, "crUpdate")
    /\ \E ok \in BOOLEAN :
          IF ok
          THEN /\ crSpec' = instance.spec
               /\ instance' = [spec |-> instance.spec, status |-> crStatus]
               /\ pc' = "updateCR_status"
               /\ updErr' = FALSE
          ELSE /\ crSpec' = crSpec
               /\ instance' = [instance EXCEPT !.status = EmptyStatus]
               /\ pc' = "updateCR_ret"
               /\ updErr' = TRUE
    /\ calls' = calls \cup Failure(updErr')
    /\ UNCHANGED <<crExists, crStatus, ds, pods, nextPod, secret, vendor, meshDone>>
    /\ UNCHANGED <<cause, desired, updateCR, waitVars, result, rollout>>
    /\ oldHist

\* updateCR: the saved status put back and the status write.
updateCR_StatusUpdate ==
    /\ pc = "updateCR_status"
    /\ instance' = [instance EXCEPT !.status = StatusToSend(newStatus, instance.status)]
    /\ muts' = Append(muts, "crStatusUpdate")
    /\ \E ok \in BOOLEAN :
          /\ crStatus' = IF ok THEN instance'.status ELSE crStatus
          /\ updErr' = ~ok
    /\ calls' = calls \cup Failure(updErr')
    /\ pc' = "updateCR_ret"
    /\ UNCHANGED <<crExists, crSpec, ds, pods, nextPod, secret, vendor, meshDone, now>>
    /\ UNCHANGED <<cause, newStatus, desired, updateCR, waitVars, result, rollout>>
    /\ oldHist

\* Reconcile: updateCR has returned.
Reconcile_updateCRReturn ==
    /\ pc = "updateCR_ret"
    /\ EndTick(AfterUpdateCR(updErr, cause))
    /\ UNCHANGED <<storeVars, now, muts, calls, rollout>>
    /\ oldHist

\* getSecret: the secret the caller goes on with and whether it is an error.
\* Only a not-found answer is returned as an error.
\* (a getSecret that answers a failed Get with the secret it read before)
getSecret_mut(res) == [secret |-> "ok", err |-> res = "notfound"]
getSecret(res) ==
    [secret |-> IF res = "ok" THEN secret ELSE "empty", err |-> res = "notfound"]

\* The secret holds both tokens.
verifySecret(sec) == sec = "ok"

\* Reconcile: the vendor client from the token secret.
buildDynatraceClient ==
    /\ pc = "buildClient"
    /\ \E getOk \in BOOLEAN :
          LET res == IF ~getOk THEN "error" ELSE IF secret = "missing" THEN "notfound" ELSE "ok"
              got == getSecret(res)
          IN  /\ calls' = calls \cup {"getSecret"} \cup Failure(res = "error")
              /\ IF got.err \/ ~verifySecret(got.secret)
                 THEN EndTick("Error")
                 ELSE /\ Goto(IF instance.spec.enableIstio THEN "istio" ELSE "reconcileRollout",
                              instance, cause)
                      /\ oldUpd /\ oldVer /\ UNCHANGED waitVars
    /\ UNCHANGED <<storeVars, now, muts, rollout>>
    /\ oldHist

\* Reconcile: the mesh hook. It reports an update when it created its objects.
reconcileIstio ==
    /\ pc = "istio"
    /\ \E ok \in BOOLEAN :
          LET upd == ok /\ ~meshDone
          IN  /\ meshDone' = (meshDone \/ upd)
              /\ calls' = calls \cup (IF upd THEN {"istio", "istioUpdate"} ELSE {"istio"})
              /\ IF upd /\ ok
                 THEN EndTick("Requeue")
                 ELSE /\ Goto("reconcileRollout", instance, cause)
                      /\ oldUpd /\ oldVer /\ UNCHANGED waitVars
    /\ UNCHANGED <<crExists, crSpec, crStatus, ds, pods, nextPod, secret, vendor, now, muts,
                   rollout>>
    /\ oldHist

\* reconcileRollout, and Reconcile up to the update-disabled check.
reconcileRollout ==
    /\ pc = "reconcileRollout"
    /\ IF Len(instance.spec.env) = 0
       THEN /\ EndTick("Panic")
            /\ UNCHANGED <<ds, muts, calls>>
       ELSE \E getOk, writeOk \in BOOLEAN :
            LET upd    == NeedsInstallerToken(instance.spec.env)
                spec   == DesiredSpec(instance.spec)
                inst   == [instance EXCEPT !.spec = spec]
                res    == DsGetResult(getOk)
                create == ShouldCreate(res)
                update == ~create /\ ShouldUpdate(res, hasSpecChanged(ds, spec))
                failed == \/ ~create /\ res # "ok"
                          \/ create /\ (~writeOk \/ ds.exists)
                          \/ update /\ ~writeOk
            IN  /\ calls' = calls \cup {"dsGet"}
                              \cup Failure(res = "error" \/ ((create \/ update) /\ ~writeOk))
                /\ muts' = IF create THEN Append(muts, "dsCreate")
                           ELSE IF update THEN Append(muts, "dsUpdate")
                           ELSE muts
                /\ ds' = IF (create \/ update) /\ ~failed THEN newDaemonSetForCR(spec) ELSE ds
                /\ IF failed THEN EndTick("Error")
                   ELSE IF upd
                   THEN Goto("updateCR", inst, "rollout") /\ oldUpd /\ oldVer /\ UNCHANGED waitVars
                   ELSE IF spec.disableAgentUpdate
                   THEN EndTick("Done")
                   ELSE Goto("reconcileVersion", inst, cause)
                        /\ oldUpd /\ oldVer /\ UNCHANGED waitVars
    /\ UNCHANGED <<crExists, crSpec, crStatus, pods, nextPod, secret, vendor, meshDone, now, rollout>>
    /\ oldHist

\* reconcileVersion, up to the call of deletePods.
reconcileVersion ==
    /\ pc = "reconcileVersion"
    /\ IF ~vendor.ok
       THEN LET r == AfterQueryError(updateCR)
            IN  /\ Goto(IF r.err THEN "versionErr" ELSE "versionRet",
                        [instance EXCEPT !.status.version = VersionAfterQuery(@, vendor)], cause)
                /\ updateCR' = r.upd
                /\ calls' = calls \cup {"versionQuery"}
                /\ UNCHANGED <<desired, waitVars, fullAtStart>>
                /\ oldUpd
       ELSE \E listOk \in BOOLEAN :
            LET version == VersionAfterQuery(instance.status.version, vendor)
                inst1   == [instance EXCEPT !.status.version = version]
                items   == Instances(PodList)
                inst2   == [inst1 EXCEPT !.status.items = items]
            IN  /\ calls' = calls \cup {"versionQuery", "podList"} \cup Failure(~listOk)
                /\ IF ~listOk
                   THEN EndTick("Error") /\ UNCHANGED fullAtStart
                   ELSE /\ Goto("deletePods", inst2, cause)
                        /\ desired' = vendor.version
                        /\ updateCR' = (version # instance.status.version
                                        \/ items # instance.status.items)
                        /\ podsToDelete' = getPodsToRestart(PodList, inst1)
                        /\ idx' = 1
                        /\ fullAtStart' = (NodesWithoutRunning = {})
                        /\ UNCHANGED <<splay, status>>
                        /\ oldUpd
    /\ UNCHANGED <<storeVars, now, muts, rollout>>
    /\ UNCHANGED <<ticks, status0, envActed, seq2, seqClean>>

\* Reconcile: reconcileVersion has returned (updateCR, err).
VersionReturns(err) ==
    LET next == AfterVersion(err, updateCR)
    IN  IF next = "fail" THEN EndTick("Error")
        ELSE IF next = "long" THEN EndTick("After30m")
        ELSE /\ Goto("updateCR", instance, "version")
             /\ oldUpd /\ oldVer /\ UNCHANGED waitVars

\* Reconcile: reconcileVersion has returned without a rollout.
Reconcile_versionReturn ==
    /\ pc \in {"versionRet", "versionErr"}
    /\ VersionReturns(pc = "versionErr")
    /\ UNCHANGED <<storeVars, now, muts, calls, rollout>>
    /\ oldHist

\* deletePods: what the Delete of a pod answers.
DeleteResult(ok, name) ==
    IF ~ok THEN "error" ELSE IF name \in DOMAIN pods THEN "ok" ELSE "notfound"

\* deletePods: the next pod of the list is deleted, or the list is done.
deletePods ==
    /\ pc = "deletePods"
    /\ IF idx > Len(podsToDelete)
       THEN /\ VersionReturns(FALSE)
            /\ UNCHANGED <<pods, muts, calls, rollout>>
       ELSE \E ok \in BOOLEAN :
            LET pod == podsToDelete[idx]
                res == DeleteResult(ok, pod.name)
            IN  /\ muts' = Append(muts, "podDelete")
                /\ calls' = calls \cup Failure(res = "error")
                              \cup (IF res = "notfound" THEN {"podDeleteNotFound"} ELSE {})
                /\ IF res = "ok"
                   THEN /\ pods' = [p \in DOMAIN pods \ {pod.name} |-> pods[p]]
                        /\ rollout' = Append(rollout,
                               [name |-> pod.name, node |-> pod.node, version |-> pod.version,
                                polls |-> 0, seenReady |-> FALSE, exhausted |-> FALSE,
                                crowdedAt |-> 0, ret |-> "pending"])
                        /\ Goto("wait", instance, cause)
                        /\ splay' = 0
                        /\ status' = "nil"
                        /\ UNCHANGED <<podsToDelete, idx>>
                        /\ oldUpd /\ oldVer
                   ELSE /\ VersionReturns(TRUE)
                        /\ UNCHANGED <<pods, rollout>>
    /\ UNCHANGED <<crExists, crSpec, crStatus, ds, nextPod, secret, vendor, meshDone, now>>
    /\ oldHist

\* How far the poll counter of a wait is kept.
PollCap == (UInt16 \div splayTimeSeconds) + 3

\* waitPodReadyState: one iteration of the loop: the sleep, the list, the count.
waitPodReadyState_Poll ==
    /\ pc = "wait"
    /\ splay < instance.spec.waitReadySeconds
    /\ \E listOk \in BOOLEAN :
          LET pod   == podsToDelete[idx]
              found == foundPods(pod)
              brk   == PollBreaks(listOk, found)
              k     == Len(rollout)
          IN  /\ status' = PollStatus(listOk, found)
              /\ calls' = calls \cup {"podList"}
                            \cup (IF listOk THEN {} ELSE {"pollListFailure"})
              /\ rollout' = [rollout EXCEPT ![k].polls = Min(@ + 1, PollCap),
                                            ![k].seenReady = @ \/ brk,
                                            ![k].crowdedAt =
                                                IF @ = 0 /\ PollStatus(listOk, found) = "tooMany"
                                                THEN Min(rollout[k].polls + 1, PollCap) ELSE @,
                                            ![k].ret = IF brk THEN "nil" ELSE @]
              /\ IF brk
                 THEN /\ Goto("deletePods", instance, cause)
                      /\ idx' = idx + 1
                      /\ UNCHANGED splay
                 ELSE /\ Goto("wait", instance, cause)
                      /\ splay' = NextSplay(splay)
                      /\ UNCHANGED idx
              /\ UNCHANGED podsToDelete
              /\ oldUpd /\ oldVer
    /\ UNCHANGED <<storeVars, now, muts>>
    /\ oldHist

\* waitPodReadyState: the loop counter reached the timeout; status is returned.
waitPodReadyState_Return ==
    /\ pc = "wait"
    /\ ~(splay < instance.spec.waitReadySeconds)
    /\ rollout' = [rollout EXCEPT ![Len(rollout)].exhausted = TRUE,
                                  ![Len(rollout)].ret = status]
    /\ IF status = "nil"
       THEN /\ Goto("deletePods", instance, cause)
            /\ idx' = idx + 1
            /\ UNCHANGED <<podsToDelete, splay, status>>
            /\ oldUpd /\ oldVer
       ELSE VersionReturns(TRUE)
    /\ UNCHANGED <<storeVars, now, muts, calls>>
    /\ oldHist

----------------------------------------------------------------------------
\* The rest of the cluster: the daemonset controller and the kubelets.
\* They act while the reconciler sleeps in a wait, or between two ticks.
\* The record of the last tick is kept until somebody else changes the cluster.
envTime == pc = "wait" \/ (pc = "idle" /\ ticks < MaxTicks)

envFrame ==
    /\ envActed' = TRUE
    /\ UNCHANGED <<now, pc, instance, newStatus, desired, updateCR, waitVars, ticks>>
    /\ IF pc = "idle"
       THEN /\ result' = "none"
            /\ cause' = ""
            /\ updErr' = FALSE
            /\ muts' = <<>>
            /\ calls' = {}
            /\ rollout' = <<>>
            /\ status0' = EmptyStatus
            /\ fullAtStart' = FALSE
            /\ seq2' = FALSE
            /\ seqClean' = FALSE
       ELSE UNCHANGED <<result, cause, updErr, muts, calls, rollout, status0, fullAtStart,
                        seq2, seqClean>>

\* The daemonset controller creates a pod on a node.
CreatePod(n, v) ==
    /\ envTime
    /\ ds.exists
    /\ nextPod < FirstNewPod + MaxNewPods
    /\ pods' = [p \in DOMAIN pods \cup {nextPod} |->
                  IF p = nextPod
                  THEN [node |-> n, phase |-> "Pending", ready |-> FALSE, version |-> v]
                  ELSE pods[p]]
    /\ nextPod' = nextPod + 1
    /\ UNCHANGED <<crExists, crSpec, crStatus, ds, secret, vendor, meshDone>>
    /\ envFrame

\* A pending pod starts running.
PodRunning(p) ==
    /\ envTime
    /\ pods[p].phase = "Pending"
    /\ pods' = [pods EXCEPT ![p].phase = "Running"]
    /\ UNCHANGED <<crExists, crSpec, crStatus, ds, nextPod, secret, vendor, meshDone>>
    /\ envFrame

\* A running pod passes its readiness probe.
PodReady(p) ==
    /\ envTime
    /\ pods[p].phase = "Running"
    /\ ~pods[p].ready
    /\ pods' = [pods EXCEPT ![p].ready = TRUE]
    /\ UNCHANGED <<crExists, crSpec, crStatus, ds, nextPod, secret, vendor, meshDone>>
    /\ envFrame

\* A pod that was there before the rollout goes away while the reconciler
\* sleeps in a wait: it is evicted, or the daemonset controller removes it.
PodGone(p) ==
    /\ pc = "wait"
    /\ p < FirstNewPod
    /\ pods' = [q \in DOMAIN pods \ {p} |-> pods[q]]
    /\ UNCHANGED <<crExists, crSpec, crStatus, ds, nextPod, secret, vendor, meshDone>>
    /\ envFrame

Next ==
    \/ Fetch
    \/ updateCR_Update
    \/ updateCR_StatusUpdate
    \/ Reconcile_updateCRReturn
    \/ buildDynatraceClient
    \/ reconcileIstio
    \/ reconcileRollout
    \/ reconcileVersion
    \/ Reconcile_versionReturn
    \/ deletePods
    \/ waitPodReadyState_Poll
    \/ waitPodReadyState_Return
    \/ \E n \in Nodes : CreatePod(n, NewPodVersion)
    \/ \E p \in DOMAIN pods : PodRunning(p)
    \/ \E p \in DOMAIN pods : PodReady(p)
    \/ \E p \in DOMAIN pods : PodGone(p)

Spec == Init /\ [][Next]_vars

SpecWait == InitWait /\ [][Next]_vars

----------------------------------------------------------------------------
\* What the properties read off the tick's record.

\* The delete calls deletePods issued in this tick.
Deletes == Cardinality({i \in DOMAIN muts : muts[i] = "podDelete"})

\* The timeout of the instance the tick works on.
Timeout == crSpec.waitReadySeconds

CeilDiv(a, b) == (a + b - 1) \div b

\* The rollout of this tick failed: a delete failed, or a wait returned an error.
RolloutFailed ==
    \/ Deletes > Len(rollout)
    \/ rollout # <<>> /\ rollout[Len(rollout)].ret \notin {"pending", "nil"}

\* The version the stale pods are told by: the vendor's answer or, when that
\* is the empty version, the version the stored status holds.
TargetVersion == IF desired # "" THEN desired ELSE crStatus.version

----------------------------------------------------------------------------
C2_NextDeleteAfterReady ==
    \A k \in DOMAIN rollout :
        (k < Deletes /\ rollout[k].polls >= 1) =>
            (rollout[k].seenReady /\ ~rollout[k].exhausted)

\* C3: a wait whose loop polled and is exhausted without a poll reaching
\* success returns an error, and the tick fails.
C3_ExhaustedWaitFails ==
    \A k \in DOMAIN rollout :
        (rollout[k].polls >= 1 /\ rollout[k].exhausted /\ ~rollout[k].seenReady) =>
            /\ rollout[k].ret # "nil"
            /\ (pc = "idle" => result = "Error")

\* C4: the wait for one node makes at most ceil(T/S) polls.
C4_PollBound ==
    \A k \in DOMAIN rollout : rollout[k].polls <= CeilDiv(Timeout, splayTimeSeconds)

C6_FailedRolloutNoStatusWrite ==
    RolloutFailed =>
        /\ crStatus = status0
        /\ \A i \in DOMAIN muts : muts[i] \notin {"crUpdate", "crStatusUpdate"}
        /\ \A k \in DOMAIN rollout : rollout[k].name \notin DOMAIN pods
        /\ pc = "idle"
        /\ result = "Error"

C6_Witness ==
    /\ RolloutFailed
    /\ result = "Error"
    /\ Len(rollout) = 2
    /\ rollout[1].seenReady
    /\ vendor.ok /\ vendor.version # "" /\ vendor.version # crStatus.version

\* C7: when updateCR returns without error, the stored status is the status
\* it was called with, stamped, and not the empty placeholder.
C7_PersistRoundTrip ==
    (pc = "updateCR_ret" /\ ~updErr) =>
        /\ crStatus = newStatus
        /\ crStatus # EmptyStatus
        /\ crStatus.updatedTimestamp = now - 1
        /\ instance.status = crStatus

C7_Witness ==
    /\ pc = "updateCR_ret"
    /\ ~updErr
    /\ cause = "version"
    /\ newStatus.version # status0.version
    /\ newStatus.items # status0.items

\* C8: updateCR returns no error only if both writes succeeded, and when it
\* returns an error the in-memory status is the saved one.
C8_PersistFailureRestoresStatus ==
    pc = "updateCR_ret" =>
        /\ ~updErr => muts[Len(muts)] = "crStatusUpdate" /\ crStatus = newStatus
        /\ updErr => instance.status = newStatus

\* C9 as claimed: a tick that directly follows another, with nothing changed
\* in between, issues no store mutation.
C9_SecondTickNoMutation ==
    (seq2 /\ ~envActed) => muts = <<>>

\* C9 as amended: a tick that directly follows a tick which issued no store
\* mutation and asked for no early re-tick, with nothing changed since that
\* tick began, issues no store mutation.
C9_SecondTickAfterSteadyTick ==
    (seqClean /\ ~envActed) => muts = <<>>

C9_Witness ==
    /\ seqClean
    /\ ~envActed
    /\ pc = "idle"
    /\ result = "After30m"
    /\ "podList" \in calls

\* C10: a tick that finds .spec.tokens empty sets it to the instance's name and
\* calls updateCR; when both writes succeed it returns Requeue and the store
\* holds the name; it builds no vendor client and touches no daemonset or pod.
C10_TokenDefaultTick ==
    cause = "defaults" =>
        /\ calls \subseteq {"storeFailure"}
        /\ \A i \in DOMAIN muts : muts[i] \in {"crUpdate", "crStatusUpdate"}
        /\ pc \in {"updateCR", "updateCR_status", "updateCR_ret", "idle"}
        /\ pc # "idle" => instance.spec.tokens = InstanceName
        /\ (pc \in {"updateCR_ret", "idle"} /\ ~updErr) =>
              /\ crSpec.tokens = InstanceName
              /\ muts = <<"crUpdate", "crStatusUpdate">>
        /\ pc = "idle" => result = (IF updErr THEN "Error" ELSE "Requeue")

C10_Witness ==
    /\ cause = "defaults"
    /\ pc = "idle"
    /\ result = "Requeue"
    /\ crSpec.tokens = InstanceName

\* The vendor query of this tick failed.
QueryFailed == "versionQuery" \in calls /\ ~vendor.ok

\* C11: a tick whose vendor query failed has done the daemonset step, leaves
\* the stored status version as it found it, and returns no error but the
\* 30 minute re-tick.
C11_QueryFailureTick ==
    QueryFailed =>
        /\ "dsGet" \in calls
        /\ crStatus.version = status0.version
        /\ pc # "versionErr"
        /\ pc = "idle" => result = "After30m"

C11_Witness ==
    /\ QueryFailed
    /\ pc = "idle"
    /\ result = "After30m"
    /\ crStatus.version = "v1"
    /\ ds.exists

\* The tick reached the update-disabled check with automatic update disabled:
\* the daemonset step returned no error and owed no status update.
DisabledTick ==
    /\ pc = "idle"
    /\ "dsGet" \in calls
    /\ crSpec.disableAgentUpdate
    /\ cause # "rollout"
    /\ result \notin {"Error", "Panic"}

\* C12: a tick with automatic update disabled, whose daemonset step owed no
\* status update, returns no error and the 30 minute re-tick, and has made no
\* version query, pod list or pod delete.
C12_DisabledTickLongRequeue ==
    DisabledTick =>
        /\ result = "After30m"
        /\ calls \cap {"versionQuery", "podList"} = {}
        /\ Deletes = 0

\* The writes of the instance: the two writes of updateCR.
InstanceWrites == {"crUpdate", "crStatusUpdate"}
WroteInstance == \E i \in DOMAIN muts : muts[i] \in InstanceWrites

\* C13 as claimed: the first step of a tick that mutates the store (a persist
\* of the instance, a daemonset create or update, a pod delete) ends the tick
\* with an early re-tick request and nothing runs after it; a tick that ends
\* with the 30 minute request issued no store mutation.
C13_FirstMutationEndsTick ==
    /\ muts # <<>> =>
          /\ pc \in {"updateCR_status", "updateCR_ret", "idle"}
          /\ \A i \in DOMAIN muts : i > 1 => muts[i] = "crStatusUpdate"
          /\ pc = "idle" => result \in {"Requeue", "After5m", "Error"}
    /\ (pc = "idle" /\ result = "After30m") => muts = <<>>

\* C13 as amended: a persist of the instance ends the tick, with an early
\* re-tick request when it succeeds and with the error when it fails, and no
\* store mutation follows it; a tick that ends with the 30 minute request
\* issued no write of the instance.
C13_PersistEndsTick ==
    /\ WroteInstance =>
          /\ pc \in {"updateCR_status", "updateCR_ret", "idle"}
          /\ \A i, j \in DOMAIN muts :
                (muts[i] \in InstanceWrites /\ i < j) => muts[j] = "crStatusUpdate"
          /\ pc = "idle" =>
                result = (IF updErr THEN "Error"
                          ELSE IF cause = "defaults" THEN "Requeue" ELSE "After5m")
    /\ (pc = "idle" /\ result = "After30m") => ~WroteInstance

C13_Witness ==
    /\ pc = "idle"
    /\ result = "After5m"
    /\ muts = <<"dsCreate", "crUpdate", "crStatusUpdate">>

\* The step issues the store mutation m.
Issued(m) == Len(muts') = Len(muts) + 1 /\ muts'[Len(muts')] = m

\* C14: a daemonset create is issued only when none exists, an update only
\* when the one found differs materially from the one built from the spec; a
\* written daemonset is the one built from the spec; neither the daemonset nor
\* the instance is ever deleted; a daemonset step that finds an unchanged
\* daemonset issues no write.
C14_DaemonSetWrites ==
    [][/\ Issued("dsCreate") => ~ds.exists
       /\ Issued("dsUpdate") => (ds.exists /\ hasSpecChanged(ds, DesiredSpec(instance.spec)))
       /\ ds' # ds => ds' = newDaemonSetForCR(DesiredSpec(instance.spec))
       /\ ds.exists => ds'.exists
       /\ crExists => crExists'
       /\ (/\ pc = "reconcileRollout"
           /\ instance.spec.env # <<>>
           /\ ds.exists
           /\ ~hasSpecChanged(ds, DesiredSpec(instance.spec))) => (ds' = ds /\ muts' = muts)]_vars

\* A second tick on a cluster that began without a daemonset found the one
\* the tick before it created and wrote none.
C14_Witness ==
    /\ pc = "idle"
    /\ ticks = 2
    /\ pods = <<>>
    /\ "dsGet" \in calls
    /\ result \in OKResults
    /\ ds = newDaemonSetForCR(crSpec)
    /\ \A i \in DOMAIN muts : muts[i] \notin {"dsCreate", "dsUpdate"}

\* C15: once a poll of a wait has seen more than one running pod on the node,
\* that poll is the last of the wait, the pod of the wait is the last one
\* deleted in the tick, the wait returns an error and the tick fails.
C15_CrowdedNodeHalts ==
    \A k \in DOMAIN rollout :
        rollout[k].crowdedAt > 0 =>
            /\ rollout[k].polls = rollout[k].crowdedAt
            /\ rollout[k].ret \in {"pending", "tooMany"}
            /\ Deletes = k
            /\ pc = "idle" => result = "Error"

\* C16: a delete that answers not-found, after every pod before it was
\* replaced by a ready one, is taken for a success: the wait for the node of
\* that pod is entered and the tick does not fail for it.
C16_DeleteOfGonePodSucceeds ==
    ("podDeleteNotFound" \in calls /\ \A k \in DOMAIN rollout : rollout[k].seenReady) =>
        /\ Len(rollout) = Deletes
        /\ pc = "idle" => result # "Error"

\* C17: a tick whose mesh hook reported an update persists the instance, spec
\* write then status write, returns the immediate re-tick, and has done no
\* daemonset or version step.
C17_MeshUpdatePersists ==
    "istioUpdate" \in calls =>
        /\ pc = "idle"
        /\ result = "Requeue"
        /\ muts = <<"crUpdate", "crStatusUpdate">>
        /\ calls \cap {"dsGet", "versionQuery", "podList"} = {}

\* A store failure that is not a poll's ends the tick: the step that met it
\* returns the error (updateCR to Reconcile, which returns it), and the tick
\* issues no store call after it.
StoreFailureEndsTick ==
    /\ "storeFailure" \in calls' =>
          /\ pc' \in {"updateCR_ret", "idle"}
          /\ pc' = "idle" => result' = "Error"
    /\ ("storeFailure" \in calls /\ pc # "idle") => (muts' = muts /\ calls' = calls)

\* The wait stands after a poll whose list failed.
PollListFailed == pc = "wait" /\ status = "listError"

\* The reconciler sleeps: the step is one of the rest of the cluster.
Sleeps == pc' = "wait" /\ splay' = splay

\* C18 as claimed: every store failure that is not for absence ends the tick
\* with an error and no store call follows it, a failed pod list of the
\* polling loop included.
C18_NoLocalRetry ==
    [][/\ StoreFailureEndsTick
       /\ PollListFailed => (Sleeps \/ (pc' = "idle" /\ result' = "Error"))]_vars

\* C18 as amended: every store failure that is not for absence ends the tick
\* with an error and no store call follows it, but for a failed pod list of
\* the polling loop: the loop polls again while its timeout lasts, and the
\* failure ends the tick with an error when it was that of the last poll.
C18_PollRetriesOtherFailuresEndTick ==
    [][/\ StoreFailureEndsTick
       /\ PollListFailed =>
             \/ Sleeps
             \/ /\ splay < instance.spec.waitReadySeconds
                /\ "podList" \in calls'
                /\ rollout'[Len(rollout)].polls >= rollout[Len(rollout)].polls
                /\ pc' \in {"wait", "deletePods"}
                /\ muts' = muts
             \/ /\ ~(splay < instance.spec.waitReadySeconds)
                /\ pc' = "idle"
                /\ result' = "Error"]_vars

\* A poll's list failed and a later poll of the same wait found the ready pod.
C18_Witness ==
    /\ pc = "deletePods"
    /\ "pollListFailure" \in calls
    /\ "storeFailure" \notin calls
    /\ Len(rollout) = 1
    /\ rollout[1].polls = 2
    /\ rollout[1].seenReady

\* C19: the daemonset step never crashes, and the tick that goes on after it
\* holds an env list with exactly one installer-token entry, at its head.
C19_RolloutStepCompletes ==
    /\ result # "Panic"
    /\ ("dsGet" \in calls /\ pc # "idle") =>
          /\ instance.spec.env # <<>>
          /\ instance.spec.env[1] = TokenEnv
          /\ Cardinality({i \in DOMAIN instance.spec.env : instance.spec.env[i] = TokenEnv}) = 1

\* C20: in a tick whose vendor query failed, the version step lists no pod
\* and deletes none, and the status version and per-pod map are the ones the
\* tick found, in the store and in memory.
C20_QueryFailureFrame ==
    QueryFailed =>
        /\ "podList" \notin calls
        /\ Deletes = 0
        /\ rollout = <<>>
        /\ crStatus = status0
        /\ pc \in {"versionRet", "versionErr"} =>
              /\ instance.status.version = status0.version
              /\ instance.status.items = status0.items

C20_Witness ==
    /\ QueryFailed
    /\ pc = "versionRet"
    /\ status0.version = "v1"
    /\ status0.items # <<>>
    /\ \E p \in DOMAIN pods : pods[p].version # status0.version

====
